---- MODULE Spec2Model ----
(***************************************************************************)
(* Model of internal/pyscript/geoexport.py: the export process started by  *)
(* main(), the job document parser ExportPayload.from_dict, and the        *)
(* GeoProcessor pipeline (CRS cache, transform cache, feature builder,     *)
(* dataset writer, run_export loop).  QGIS objects are modelled by the     *)
(* part of their behaviour the script relies on.                           *)
(***************************************************************************)
EXTENDS Integers, Sequences, FiniteSets, TLC

\* ---------------------------------------------------------------- bounds
MaxDatasets == 2
MaxFeatures == 2
MaxRuns == 2

\* ------------------------------------------------------- script constants
\* FIELD_DEFINITIONS: the names, in order (types and aliases play no part in
\* the control flow of the script).
FIELD_DEFINITIONS ==
    <<"JZD", "AREA", "DKBH", "DKMC", "TXSX", "TFH", "DKYT", "DLBM", "WJLJ">>

FIELD_MAPPING ==
    [JZD  |-> <<"bp_cnt">>,
     AREA |-> <<"area">>,
     DKBH |-> <<"pid">>,
     DKMC |-> <<"pname">>,
     TXSX |-> <<"gtype">>,
     TFH  |-> <<"sheet">>,
     DKYT |-> <<"usage">>,
     DLBM |-> <<"code">>,
     WJLJ |-> <<"source_path">>]

\* logging.basicConfig(stream=sys.stderr)
LOG_STREAM == "stderr"

\* self.default_crs = self._build_crs("EPSG:4526")
DEFAULT_CRS_ID == "EPSG:4526"

\* The keyword arguments the dataclass constructors require.
TopFields ==
    {"datasets", "driver", "merge", "output_dir", "overwrite", "target_crs"}
DatasetFields ==
    {"features", "hash", "layer_name", "source_crs", "source_path",
     "total_features"}

\* ------------------------------------------------------ values of the model
\* Python None, and a key that a dict does not hold.
None == "<None>"
Absent == "<absent>"
\* A JSON value of another type than the one the script expects: a list
\* where a string is expected (unhashable), a number where a string is
\* expected.
ListValue == "<list>"
IntValue == "<int>"

PropKeys ==
    {"bp_cnt", "area", "pid", "pname", "gtype", "sheet", "usage", "code",
     "source_path"}

\* A property map: a dict (isDict) with the value of every key it holds, or
\* a JSON null in place of the dict.
NoProps == [k \in PropKeys |-> Absent]
Props(m) == [isDict |-> TRUE, map |-> m]
NullProps == [isDict |-> FALSE, map |-> NoProps]

\* ------------------------------------------------------------- the QGIS API
\* QgsCoordinateReferenceSystem(def_crs): the handle built from an identifier.
\* Authority codes are matched without regard to case; a PROJ string gives a
\* valid CRS without authority code; anything else is invalid.
InvalidCrs == [valid |-> FALSE, authid |-> "", wkt |-> ""]

QgsCoordinateReferenceSystem(def_crs) ==
    CASE def_crs = "EPSG:4526" -> [valid |-> TRUE, authid |-> "EPSG:4526", wkt |-> "WKT[CGCS2000 / 3-degree GK zone 38]"]
      [] def_crs = "EPSG:4490" -> [valid |-> TRUE, authid |-> "EPSG:4490", wkt |-> "WKT[China Geodetic CS 2000]"]
      [] def_crs = "epsg:4490" -> [valid |-> TRUE, authid |-> "EPSG:4490", wkt |-> "WKT[China Geodetic CS 2000]"]
      [] def_crs = "+proj=utm +zone=50" -> [valid |-> TRUE, authid |-> "", wkt |-> "WKT[unknown UTM 50]"]
      [] OTHER -> InvalidCrs

\* QgsCoordinateReferenceSystem.__eq__
CrsEqual(a, b) ==
    IF ~a.valid /\ ~b.valid THEN TRUE
    ELSE IF a.valid # b.valid THEN FALSE
    ELSE IF a.authid # "" \/ b.authid # "" THEN a.authid = b.authid
    ELSE a.wkt = b.wkt

\* driver_name.upper()
Upper(s) ==
    CASE s = "gpkg" -> "GPKG"
      [] s = "OpenFileGDB" -> "OPENFILEGDB"
      [] OTHER -> s

IsContainer(driver_name) == Upper(driver_name) \in {"GPKG", "OPENFILEGDB"}

\* QgsGeometry.fromWkt(wkt): "ok" a geometry, "null" an empty geometry (the
\* text is no WKT), "raise" a TypeError (the argument is no string).
FromWkt(wkt) ==
    CASE wkt = IntValue -> "raise"
      [] wkt \in {"POLYGON((0 0,1 0,1 1,0 1,0 0))", "POLYGON((9e9 9e9,9e9 0,0 0,9e9 9e9))"} -> "ok"
      [] OTHER -> "null"

\* geom.transform(transform) raises QgsCsException for coordinates outside
\* the domain of the projection.
TransformRaises(wkt) == wkt = "POLYGON((9e9 9e9,9e9 0,0 0,9e9 9e9))"

\* The key of a CRS in the transform cache: authid() or toWkt().
CrsKey_coarse(crs) == "crs"
CrsKey(crs) == IF crs.authid # "" THEN crs.authid ELSE crs.wkt

NoTransform == [isNone |-> TRUE, src |-> InvalidCrs, dst |-> InvalidCrs]
QgsCoordinateTransform(src_crs, dest_crs) ==
    [isNone |-> FALSE, src |-> src_crs, dst |-> dest_crs]

NoGeometry == [set |-> FALSE, wkt |-> "", via |-> <<>>]

\* The three actionOnExistingFile values the model knows.
CreateOrOverwriteFile == "CreateOrOverwriteFile"
CreateOrOverwriteLayer == "CreateOrOverwriteLayer"
AppendToLayerNoNewFields == "AppendToLayerNoNewFields"

EmptyLayer(fields) == [fields |-> fields, features |-> <<>>]

\* The empty map, a map without the key k, and a map with k set to v.
EmptyMap == [x \in {} |-> x]
Without(f, k) == [x \in DOMAIN f \ {k} |-> f[x]]
With(f, k, v) == [x \in DOMAIN f \cup {k} |-> IF x = k THEN v ELSE f[x]]

\* QgsVectorFileWriter.create on the output store (path -> layer name ->
\* layer): CreateOrOverwriteFile removes the file at the path and creates
\* one that holds the new layer alone; CreateOrOverwriteLayer keeps the
\* file and replaces (or adds) the one layer; AppendToLayerNoNewFields
\* keeps an existing layer with its features.
WriterCreate(st, path, layer_name, action, fields) ==
    IF action = CreateOrOverwriteFile \/ path \notin DOMAIN st
    THEN With(st, path, With(EmptyMap, layer_name, EmptyLayer(fields)))
    ELSE IF action = CreateOrOverwriteLayer \/ layer_name \notin DOMAIN st[path]
    THEN With(st, path, With(st[path], layer_name, EmptyLayer(fields)))
    ELSE st

\* writer.addFeatures(features): the features are appended to the layer.
WriterAdd(st, path, layer_name, features) ==
    With(st, path,
         With(st[path], layer_name,
              [st[path][layer_name] EXCEPT !.features = @ \o features]))

\* ------------------------------------------------- ExportPayload.from_dict
NoPayload ==
    [datasets |-> <<>>, driver |-> "", merge |-> FALSE, output_dir |-> "",
     overwrite |-> FALSE, target_crs |-> ""]

\* Dataset(features=[...ds.get("features", [])], **{the other keys of ds}):
\* the constructor raises TypeError when a keyword it requires is missing.
DatasetKwargsOk_lenient(ds) == TRUE
DatasetKwargsOk(ds) == (DatasetFields \ {"features"}) \cap ds.absent = {}

\* cls(datasets=datasets, **{the other keys of data})
PayloadKwargsOk(data) == (TopFields \ {"datasets"}) \cap data.absent = {}

\* ds.get("features", []) and data.get("datasets", [])
GetFeatures(ds) == IF "features" \in ds.absent THEN <<>> ELSE ds.features
GetDatasets(data) == IF "datasets" \in data.absent THEN <<>> ELSE data.datasets

from_dict(data) ==
    LET dss == GetDatasets(data) IN
    IF (\E i \in 1..Len(dss) : ~DatasetKwargsOk(dss[i])) \/ ~PayloadKwargsOk(data)
    THEN [raised |-> TRUE, payload |-> NoPayload]
    ELSE [raised |-> FALSE,
          payload |->
            [datasets |->
               [i \in 1..Len(dss) |->
                  [features |-> GetFeatures(dss[i]),
                   hash |-> dss[i].hash,
                   layer_name |-> dss[i].layer_name,
                   source_crs |-> dss[i].source_crs,
                   source_path |-> dss[i].source_path,
                   total_features |-> dss[i].total_features]],
             driver |-> data.driver,
             merge |-> data.merge,
             output_dir |-> data.output_dir,
             overwrite |-> data.overwrite,
             target_crs |-> data.target_crs]]

\* --------------------------------------------------- GeoProcessor, helpers
\* _build_fields: the QgsFields of the layer, one field per definition.
build_fields == FIELD_DEFINITIONS

\* The scan of the candidate keys of one field: the first present key wins.
FirstPresent_none(keys, map) == None
RECURSIVE FirstPresent(_, _)
FirstPresent(keys, map) ==
    IF keys = <<>> THEN None
    ELSE IF map[Head(keys)] # Absent THEN map[Head(keys)]
    ELSE FirstPresent(Tail(keys), map)

\* _extract_attributes(props), with current_dataset the index of the current
\* dataset in datasets (0 for None).  It raises RuntimeError when no dataset
\* is current, and TypeError at `source_key in props` when props is None.
extract_attributes_mapped(props, current_dataset, datasets) ==
    IF current_dataset = 0 \/ ~props.isDict
    THEN [raised |-> TRUE, attributes |-> <<>>]
    ELSE [raised |-> FALSE,
          attributes |->
            [i \in 1..Len(FIELD_DEFINITIONS) |->
               FirstPresent(FIELD_MAPPING[FIELD_DEFINITIONS[i]], props.map)]]
extract_attributes(props, current_dataset, datasets) ==
    IF current_dataset = 0
    THEN [raised |-> TRUE, attributes |-> <<>>]
    ELSE IF ~props.isDict
            /\ \E i \in 1..Len(FIELD_DEFINITIONS) :
                 /\ FIELD_DEFINITIONS[i] # "WJLJ"
                 /\ FIELD_MAPPING[FIELD_DEFINITIONS[i]] # <<>>
    THEN [raised |-> TRUE, attributes |-> <<>>]
    ELSE [raised |-> FALSE,
          attributes |->
            [i \in 1..Len(FIELD_DEFINITIONS) |->
               IF FIELD_DEFINITIONS[i] = "WJLJ"
               THEN datasets[current_dataset].source_path
               ELSE FirstPresent(FIELD_MAPPING[FIELD_DEFINITIONS[i]], props.map)]]

\* _build_crs(def_crs) on the cache and the default CRS of the processor.
build_crs_keep_invalid(def_crs, crs_cache, default_crs) ==
    IF def_crs = ""
    THEN [raised |-> FALSE, crs |-> default_crs, cache |-> crs_cache,
          log |-> <<"WARNING">>]
    ELSE IF def_crs = ListValue
    THEN [raised |-> TRUE, crs |-> default_crs, cache |-> crs_cache,
          log |-> <<>>]
    ELSE IF def_crs \in DOMAIN crs_cache
    THEN [raised |-> FALSE, crs |-> crs_cache[def_crs], cache |-> crs_cache,
          log |-> <<>>]
    ELSE IF ~QgsCoordinateReferenceSystem(def_crs).valid
    THEN [raised |-> FALSE, crs |-> default_crs,
          cache |-> With(crs_cache, def_crs, default_crs),
          log |-> <<"ERROR">>]
    ELSE [raised |-> FALSE, crs |-> QgsCoordinateReferenceSystem(def_crs),
          cache |-> With(crs_cache, def_crs, QgsCoordinateReferenceSystem(def_crs)),
          log |-> <<>>]
build_crs_stale(def_crs, crs_cache, default_crs) ==
    IF def_crs = ""
    THEN [raised |-> FALSE, crs |-> default_crs, cache |-> crs_cache,
          log |-> <<"WARNING">>]
    ELSE IF def_crs = ListValue
    THEN [raised |-> TRUE, crs |-> default_crs, cache |-> crs_cache,
          log |-> <<>>]
    ELSE IF def_crs \in DOMAIN crs_cache
    THEN [raised |-> FALSE, crs |-> default_crs, cache |-> crs_cache,
          log |-> <<>>]
    ELSE IF ~QgsCoordinateReferenceSystem(def_crs).valid
    THEN [raised |-> FALSE, crs |-> default_crs, cache |-> crs_cache,
          log |-> <<"ERROR">>]
    ELSE [raised |-> FALSE, crs |-> QgsCoordinateReferenceSystem(def_crs),
          cache |-> With(crs_cache, def_crs, QgsCoordinateReferenceSystem(def_crs)),
          log |-> <<>>]
build_crs_strict(def_crs, crs_cache, default_crs) ==
    IF def_crs = "" \/ def_crs = ListValue
    THEN [raised |-> TRUE, crs |-> default_crs, cache |-> crs_cache,
          log |-> <<>>]
    ELSE IF def_crs \in DOMAIN crs_cache
    THEN [raised |-> FALSE, crs |-> crs_cache[def_crs], cache |-> crs_cache,
          log |-> <<>>]
    ELSE IF ~QgsCoordinateReferenceSystem(def_crs).valid
    THEN [raised |-> TRUE, crs |-> default_crs, cache |-> crs_cache,
          log |-> <<>>]
    ELSE [raised |-> FALSE, crs |-> QgsCoordinateReferenceSystem(def_crs),
          cache |-> With(crs_cache, def_crs, QgsCoordinateReferenceSystem(def_crs)),
          log |-> <<>>]
build_crs(def_crs, crs_cache, default_crs) ==
    IF def_crs = ""
    THEN [raised |-> FALSE, crs |-> default_crs, cache |-> crs_cache,
          log |-> <<"WARNING">>]
    ELSE IF def_crs = ListValue
    THEN [raised |-> TRUE, crs |-> default_crs, cache |-> crs_cache,
          log |-> <<>>]
    ELSE IF def_crs \in DOMAIN crs_cache
    THEN [raised |-> FALSE, crs |-> crs_cache[def_crs], cache |-> crs_cache,
          log |-> <<>>]
    ELSE IF ~QgsCoordinateReferenceSystem(def_crs).valid
    THEN [raised |-> FALSE, crs |-> default_crs, cache |-> crs_cache,
          log |-> <<"ERROR">>]
    ELSE [raised |-> FALSE, crs |-> QgsCoordinateReferenceSystem(def_crs),
          cache |-> With(crs_cache, def_crs, QgsCoordinateReferenceSystem(def_crs)),
          log |-> <<>>]

\* _build_transform(src_crs, dest_crs) on the transform cache; built is the
\* key of the QgsCoordinateTransform the call constructed, if it did.
build_transform_keep_noop(src_crs, dest_crs, transform_cache) ==
    LET key == <<CrsKey(src_crs), CrsKey(dest_crs)>> IN
    IF key \in DOMAIN transform_cache
    THEN [transform |-> transform_cache[key], cache |-> transform_cache,
          built |-> <<>>]
    ELSE IF CrsEqual(src_crs, dest_crs)
    THEN [transform |-> NoTransform,
          cache |-> With(transform_cache, key, NoTransform),
          built |-> <<>>]
    ELSE [transform |-> QgsCoordinateTransform(src_crs, dest_crs),
          cache |-> With(transform_cache, key,
                         QgsCoordinateTransform(src_crs, dest_crs)),
          built |-> <<key>>]
build_transform_uncached(src_crs, dest_crs, transform_cache) ==
    LET key == <<CrsKey(src_crs), CrsKey(dest_crs)>> IN
    IF CrsEqual(src_crs, dest_crs)
    THEN [transform |-> NoTransform, cache |-> transform_cache,
          built |-> <<>>]
    ELSE [transform |-> QgsCoordinateTransform(src_crs, dest_crs),
          cache |-> With(transform_cache, key,
                         QgsCoordinateTransform(src_crs, dest_crs)),
          built |-> <<key>>]
build_transform(src_crs, dest_crs, transform_cache) ==
    LET key == <<CrsKey(src_crs), CrsKey(dest_crs)>> IN
    IF key \in DOMAIN transform_cache
    THEN [transform |-> transform_cache[key], cache |-> transform_cache,
          built |-> <<>>]
    ELSE IF CrsEqual(src_crs, dest_crs)
    THEN [transform |-> NoTransform, cache |-> transform_cache,
          built |-> <<>>]
    ELSE [transform |-> QgsCoordinateTransform(src_crs, dest_crs),
          cache |-> With(transform_cache, key,
                         QgsCoordinateTransform(src_crs, dest_crs)),
          built |-> <<key>>]

\* _create_feature(feature_data, transform): the built feature, or None
\* (isNone) when anything raised inside the try block.
NoFeature == [isNone |-> TRUE, fields |-> <<>>, attributes |-> <<>>,
              geometry |-> NoGeometry]

create_feature(feature_data, transform, fields, current_dataset, datasets) ==
    LET ex == extract_attributes(feature_data.properties, current_dataset, datasets)
        wkt == feature_data.wkt
    IN
    IF ex.raised THEN NoFeature
    ELSE IF wkt = "" THEN
        [isNone |-> FALSE, fields |-> fields, attributes |-> ex.attributes,
         geometry |-> NoGeometry]
    ELSE IF FromWkt(wkt) = "raise" THEN NoFeature
    ELSE IF FromWkt(wkt) = "null" THEN
        [isNone |-> FALSE, fields |-> fields, attributes |-> ex.attributes,
         geometry |-> NoGeometry]
    ELSE IF transform.isNone THEN
        [isNone |-> FALSE, fields |-> fields, attributes |-> ex.attributes,
         geometry |-> [set |-> TRUE, wkt |-> wkt, via |-> <<>>]]
    ELSE IF TransformRaises(wkt) THEN NoFeature
    ELSE
        [isNone |-> FALSE, fields |-> fields, attributes |-> ex.attributes,
         geometry |-> [set |-> TRUE, wkt |-> wkt,
                       via |-> <<CrsKey(transform.src), CrsKey(transform.dst)>>]]

\* _prepare_save_options: the target path (a sequence of path components),
\* the layer name and the action on an existing file.  A layer name that is
\* no string raises TypeError (Path / int, save_opts.layerName = int).
ExistingFileAction_append(is_container, exists, overwrite) ==
    IF exists /\ overwrite
    THEN (IF is_container THEN AppendToLayerNoNewFields ELSE CreateOrOverwriteFile)
    ELSE CreateOrOverwriteFile
ExistingFileAction(is_container, exists, overwrite) ==
    IF exists /\ overwrite
    THEN (IF is_container THEN CreateOrOverwriteLayer ELSE CreateOrOverwriteFile)
    ELSE CreateOrOverwriteFile

TargetPath(output_dir, layer_name, is_container) ==
    IF is_container THEN <<output_dir>> ELSE <<output_dir, layer_name>>

prepare_save_options(payload, dataset, st) ==
    LET is_container == IsContainer(payload.driver)
        target_path == TargetPath(payload.output_dir, dataset.layer_name, is_container)
    IN
    IF dataset.layer_name = IntValue
    THEN [raised |-> TRUE, target_path |-> <<>>, layerName |-> "",
          action |-> CreateOrOverwriteFile]
    ELSE [raised |-> FALSE, target_path |-> target_path,
          layerName |-> dataset.layer_name,
          action |-> ExistingFileAction(is_container,
                                        target_path \in DOMAIN st,
                                        payload.overwrite)]

\* ------------------------------------------------------------------ state
VARIABLES
    argv,             \* sys.argv[1] is given
    stdin,            \* the job document on standard input
    input_data,       \* main: what sys.stdin.read() returned ("" before it)
    line_buffered,    \* sys.stdout writes through (a terminal, python -u);
                      \* FALSE: block buffered (a pipe), written at exit
    store,            \* the output store: path -> layer name -> layer
    pc,               \* the statement the process is at
    exit_code,        \* the exit code of the process (-1 while it runs)
    payload,          \* self.payload
    fields,           \* self.fields
    crs_cache,        \* self.crs_cache
    transform_cache,  \* self.transform_cache
    default_crs,      \* self.default_crs
    current_dataset,  \* self.current_dataset: index in payload.datasets, 0: None
    dest_crs,         \* run_export: dest_crs
    idx,              \* run_export: the position of the for loop
    src_crs,          \* run_export: src_crs
    transform,        \* run_export: transform
    fidx,             \* run_export: the position of the list comprehension
    qgs_features,     \* run_export: qgs_features
    save_opts,        \* _write_features: the prepared options
    writer,           \* _write_features: "none", or "open" while it is held
    write_result,     \* why _write_features returned: "", "writer_error",
                      \* "add_failed" or "written"
    success,          \* run_export: success
    exc,              \* the exception in flight ("" for none)
    sys_stdout,       \* the lines printed to sys.stdout
    flushed,          \* how many of them have reached the output channel
    sys_stderr,       \* the levels of the lines logged to sys.stderr
    runs,             \* how many times the job has been started
    first_store,      \* the output store at the end of the first run
    io_fault,         \* a writer error or add failure has happened
    resolved,         \* _build_crs: identifier -> the handle its first call
                      \* of this run returned
    constructed,      \* _build_transform: the keys for which a
                      \* QgsCoordinateTransform was constructed, in order
    writer_events     \* _write_features: <<"acquire", i>> when the writer of
                      \* dataset i is created, <<"release", i>> when the
                      \* last reference to it goes away

vars ==
    <<argv, stdin, input_data, line_buffered, store, pc, exit_code, payload,
      fields,
      crs_cache, transform_cache, default_crs, current_dataset, dest_crs, idx,
      src_crs, transform, fidx, qgs_features, save_opts, writer,
      write_result, success, exc, sys_stdout, flushed, sys_stderr, runs,
      first_store, io_fault, resolved, constructed, writer_events>>

inputs == <<argv, stdin, line_buffered>>
processor == <<payload, fields, crs_cache, transform_cache, default_crs>>
locals == <<dest_crs, idx, src_crs, transform, fidx, qgs_features, save_opts,
            writer, write_result, success, exc>>
history == <<runs, first_store, io_fault>>
trace == <<resolved, constructed, writer_events>>

NoSaveOpts == [target_path |-> <<>>, layerName |-> "", action |-> ""]

Datasets == payload.datasets
Dataset == Datasets[idx]

\* ---------------------------------------------------------------- streams
\* A line of the result stream, and a log line that got onto a stream.
ResultLine(hash, status) ==
    [kind |-> "result", hash |-> hash, status |-> status, error |-> Absent]
ErrorLine(hash, message) ==
    [kind |-> "result", hash |-> hash, status |-> "failed", error |-> message]
LogLine(level) ==
    [kind |-> "log", hash |-> "", status |-> level, error |-> Absent]

\* The process logs `levels` and then prints `lines`.
Streams(levels, lines) ==
    /\ sys_stderr' = IF LOG_STREAM = "stderr" THEN sys_stderr \o levels
                     ELSE sys_stderr
    /\ sys_stdout' = (IF LOG_STREAM = "stderr" THEN sys_stdout
                      ELSE sys_stdout \o [i \in 1..Len(levels) |-> LogLine(levels[i])])
                     \o lines
    /\ flushed' = IF line_buffered THEN Len(sys_stdout') ELSE flushed

\* The process logs `levels` and ends: the interpreter flushes sys.stdout.
Exit(code, levels) ==
    /\ pc' = "exited"
    /\ exit_code' = code
    /\ sys_stderr' = IF LOG_STREAM = "stderr" THEN sys_stderr \o levels
                     ELSE sys_stderr
    /\ sys_stdout' = IF LOG_STREAM = "stderr" THEN sys_stdout
                     ELSE sys_stdout \o [i \in 1..Len(levels) |-> LogLine(levels[i])]
    /\ flushed' = Len(sys_stdout')

\* ------------------------------------------------------------------- main
\* main, lines 405-410: the handlers of main's try block end the process
\* with sys.exit(1).
HandlerExitCode_zero(error) == 0
HandlerExitCode(error) == 1

\* main, lines 376-386: the prefix path, then the QGIS application.
MainStart ==
    /\ pc = "main"
    /\ IF ~argv
       THEN Exit(1, <<"ERROR">>)
       ELSE /\ pc' = "read"
            /\ exit_code' = exit_code
            /\ Streams(<<"INFO">>, <<>>)
    /\ UNCHANGED <<inputs, input_data, store, processor, current_dataset,
                   locals, history, trace>>

\* main, lines 388-399 and the handlers 405-414: read, parse, from_dict.
MainRead ==
    /\ pc = "read"
    /\ input_data' = stdin.kind
    /\ CASE stdin.kind = "empty" ->
              /\ Exit(0, <<"WARNING", "INFO">>)
              /\ payload' = payload
         [] stdin.kind = "notjson" ->
              /\ Exit(HandlerExitCode("JSONDecodeError"), <<"ERROR", "INFO">>)
              /\ payload' = payload
         [] stdin.kind = "notobject" ->
              /\ Exit(HandlerExitCode("AttributeError"), <<"ERROR", "INFO">>)
              /\ payload' = payload
         [] OTHER ->
              IF from_dict(stdin).raised
              THEN /\ Exit(HandlerExitCode("TypeError"), <<"ERROR", "INFO">>)
                   /\ payload' = payload
              ELSE /\ payload' = from_dict(stdin).payload
                   /\ pc' = "construct"
                   /\ UNCHANGED <<exit_code, sys_stdout, sys_stderr, flushed>>
    /\ UNCHANGED <<inputs, store, fields, crs_cache, transform_cache,
                   default_crs, current_dataset, locals, history, trace>>

\* What a call of _build_crs(def_crs) that returned handle adds to the
\* record of first resolutions.
Resolved(def_crs, handle) ==
    IF def_crs \in DOMAIN resolved THEN resolved
    ELSE With(resolved, def_crs, handle)

\* GeoProcessor.__init__
GeoProcessorInit ==
    /\ pc = "construct"
    /\ fields' = build_fields
    /\ transform_cache' = EmptyMap
    /\ crs_cache' = build_crs(DEFAULT_CRS_ID, EmptyMap, InvalidCrs).cache
    /\ default_crs' = build_crs(DEFAULT_CRS_ID, EmptyMap, InvalidCrs).crs
    /\ current_dataset' = 0
    /\ resolved' = Resolved(DEFAULT_CRS_ID,
                             build_crs(DEFAULT_CRS_ID, EmptyMap, InvalidCrs).crs)
    /\ Streams(<<"INFO">>, <<>>)
    /\ pc' = "run_export"
    /\ UNCHANGED <<inputs, input_data, store, exit_code, payload, locals, history,
                   constructed, writer_events>>

\* run_export, lines 334-335; an exception here reaches main's handler.
RunExportStart ==
    /\ pc = "run_export"
    /\ LET r == build_crs(payload.target_crs, crs_cache, default_crs) IN
       IF r.raised
       THEN /\ Exit(HandlerExitCode("TypeError"), <<"INFO", "ERROR", "INFO">>)
            /\ UNCHANGED <<crs_cache, dest_crs, idx, resolved>>
       ELSE /\ dest_crs' = r.crs
            /\ crs_cache' = r.cache
            /\ resolved' = Resolved(payload.target_crs, r.crs)
            /\ idx' = 0
            /\ pc' = "for"
            /\ exit_code' = exit_code
            /\ Streams(<<"INFO">> \o r.log, <<>>)
    /\ UNCHANGED <<inputs, input_data, store, payload, fields, transform_cache, default_crs,
                   current_dataset, src_crs, transform, fidx, qgs_features,
                   save_opts, writer, write_result, success, exc, history,
                   constructed, writer_events>>

\* run_export, lines 337-341: the next dataset becomes the current one.
ForNext ==
    /\ pc = "for"
    /\ idx < Len(Datasets)
    /\ idx' = idx + 1
    /\ current_dataset' = idx + 1
    /\ Streams(<<"INFO">>, <<>>)
    /\ pc' = "resolve_src"
    /\ UNCHANGED <<inputs, input_data, store, exit_code, processor, dest_crs, src_crs,
                   transform, fidx, qgs_features, save_opts, writer,
                   write_result, success, exc, history, trace>>

\* run_export returns; main, lines 411-414, and the process ends with 0.
MainFinish ==
    /\ pc = "for"
    /\ idx = Len(Datasets)
    /\ Exit(0, <<"INFO">>)
    /\ UNCHANGED <<inputs, input_data, store, processor, current_dataset, locals, history, trace>>

\* run_export, line 344
ResolveSourceCRS ==
    /\ pc = "resolve_src"
    /\ LET r == build_crs(Dataset.source_crs, crs_cache, default_crs) IN
       IF r.raised
       THEN /\ exc' = "TypeError: unhashable type"
            /\ pc' = "except"
            /\ UNCHANGED <<crs_cache, src_crs, sys_stdout, sys_stderr, flushed,
                           resolved>>
       ELSE /\ src_crs' = r.crs
            /\ crs_cache' = r.cache
            /\ resolved' = Resolved(Dataset.source_crs, r.crs)
            /\ Streams(r.log, <<>>)
            /\ pc' = "build_transform"
            /\ exc' = exc
    /\ UNCHANGED <<inputs, input_data, store, exit_code, payload, fields, transform_cache,
                   default_crs, current_dataset, dest_crs, idx, transform, fidx,
                   qgs_features, save_opts, writer, write_result, success,
                   history, constructed, writer_events>>

\* run_export, line 345
BuildTransform ==
    /\ pc = "build_transform"
    /\ transform' = build_transform(src_crs, dest_crs, transform_cache).transform
    /\ transform_cache' = build_transform(src_crs, dest_crs, transform_cache).cache
    /\ constructed' = constructed
                        \o build_transform(src_crs, dest_crs, transform_cache).built
    /\ fidx' = 0
    /\ qgs_features' = <<>>
    /\ pc' = "build_features"
    /\ UNCHANGED <<inputs, input_data, store, exit_code, payload, fields, crs_cache,
                   default_crs, current_dataset, dest_crs, idx, src_crs,
                   save_opts, writer, write_result, success, exc, sys_stdout,
                   flushed, sys_stderr, history, resolved, writer_events>>

\* run_export, lines 348-352: the comprehension keeps what is not None.
Collect_unfiltered(features, qgs_feature) == Append(features, qgs_feature)
Collect(features, qgs_feature) ==
    IF qgs_feature.isNone THEN features ELSE Append(features, qgs_feature)

\* run_export, lines 348-352: one step of the list comprehension.
BuildFeature ==
    /\ pc = "build_features"
    /\ fidx < Len(Dataset.features)
    /\ LET f == create_feature(Dataset.features[fidx + 1], transform, fields,
                               current_dataset, Datasets)
       IN
       /\ qgs_features' = Collect(qgs_features, f)
       /\ Streams(IF f.isNone THEN <<"ERROR">> ELSE <<>>, <<>>)
    /\ fidx' = fidx + 1
    /\ UNCHANGED <<inputs, input_data, store, pc, exit_code, processor, current_dataset,
                   dest_crs, idx, src_crs, transform, save_opts, writer,
                   write_result, success, exc, history, trace>>

\* _write_features, lines 317, 321 and 324: the last reference to the writer
\* of dataset i goes away, by `del writer` or by the end of the frame.
DelWriter_leak(i) == <<>>
DelWriter(i) == << <<"release", i>> >>

\* _write_features, lines 304-317: the options, then the writer.  Whether the
\* writer reports an error is the environment's choice; a failed
\* CreateOrOverwriteFile may or may not have removed the file.  A writer
\* that reports an error is an object too: `return False` at line 317 ends
\* the frame that holds the only reference to it.
WriteOpen ==
    /\ pc = "build_features"
    /\ fidx = Len(Dataset.features)
    /\ LET o == prepare_save_options(payload, Dataset, store) IN
       IF o.raised
       THEN /\ exc' = "TypeError: layer name"
            /\ pc' = "except"
            /\ UNCHANGED <<store, save_opts, writer, write_result, success,
                           sys_stdout, sys_stderr, flushed, io_fault,
                           writer_events>>
       ELSE /\ exc' = exc
            /\ save_opts' = [target_path |-> o.target_path,
                             layerName |-> o.layerName, action |-> o.action]
            /\ \/ /\ writer' = "open"
                  /\ writer_events' = Append(writer_events, <<"acquire", idx>>)
                  /\ store' = WriterCreate(store, o.target_path, o.layerName,
                                           o.action, fields)
                  /\ pc' = "add"
                  /\ UNCHANGED <<write_result, success, sys_stdout,
                                 sys_stderr, flushed, io_fault>>
               \/ /\ writer' = "none"
                  /\ writer_events' = Append(writer_events, <<"acquire", idx>>)
                                        \o DelWriter(idx)
                  /\ write_result' = "writer_error"
                  /\ store' \in {store} \cup
                       (IF o.action = CreateOrOverwriteFile
                        THEN {Without(store, o.target_path)} ELSE {})
                  /\ success' = FALSE
                  /\ io_fault' = TRUE
                  /\ Streams(<<"ERROR">>, <<>>)
                  /\ pc' = "emit"
    /\ UNCHANGED <<inputs, input_data, exit_code, processor, current_dataset, dest_crs, idx,
                   src_crs, transform, fidx, qgs_features, runs, first_store,
                   resolved, constructed>>

\* _write_features, lines 319-328: the bulk add, and the writer is deleted.
\* Whether addFeatures succeeds is the environment's choice; a failed add
\* leaves a proper prefix of the features in the layer.  Line 319: the add
\* is skipped for an empty list.
AddSkipped_never(features) == FALSE
AddSkipped(features) == features = <<>>

WriteAdd ==
    /\ pc = "add"
    /\ \/ /\ AddSkipped(qgs_features)
          /\ success' = TRUE
          /\ write_result' = "written"
          /\ Streams(<<"INFO">>, <<>>)
          /\ UNCHANGED <<store, io_fault>>
       \/ /\ ~AddSkipped(qgs_features)
          /\ success' = TRUE
          /\ write_result' = "written"
          /\ store' = WriterAdd(store, save_opts.target_path,
                                save_opts.layerName, qgs_features)
          /\ Streams(<<"INFO">>, <<>>)
          /\ UNCHANGED io_fault
       \/ /\ ~AddSkipped(qgs_features)
          /\ success' = FALSE
          /\ write_result' = "add_failed"
          /\ \E k \in {0} \cup 0..(Len(qgs_features) - 1) :
                store' = WriterAdd(store, save_opts.target_path,
                                   save_opts.layerName, SubSeq(qgs_features, 1, k))
          /\ io_fault' = TRUE
          /\ Streams(<<"ERROR">>, <<>>)
    /\ writer' = "none"
    /\ writer_events' = writer_events \o DelWriter(idx)
    /\ pc' = "emit"
    /\ UNCHANGED <<inputs, input_data, exit_code, processor, current_dataset, dest_crs, idx,
                   src_crs, transform, fidx, qgs_features, save_opts, exc, runs,
                   first_store, resolved, constructed>>

\* run_export, lines 357-363: the status of the dataset is printed.
StatusOf_inverted(ok) == IF ok THEN "failed" ELSE "processed"
StatusOf(ok) == IF ok THEN "processed" ELSE "failed"

EmitResult ==
    /\ pc = "emit"
    /\ Streams(<<"INFO">>, <<ResultLine(Dataset.hash, StatusOf(success))>>)
    /\ pc' = "finally"
    /\ UNCHANGED <<inputs, input_data, store, exit_code, processor, current_dataset,
                   dest_crs, idx, src_crs, transform, fidx, qgs_features,
                   save_opts, writer, write_result, success, exc, history, trace>>

\* run_export, lines 367-368: what the handler prints.
ExceptionOutput_none(hash, message) == <<>>
ExceptionOutput(hash, message) == <<ErrorLine(hash, message)>>

\* run_export, lines 365-368: the handler of the per-dataset try block.
HandleException_reraise ==
    /\ pc = "except"
    /\ Exit(HandlerExitCode(exc), <<"ERROR", "ERROR", "INFO">>)
    /\ UNCHANGED <<inputs, input_data, store, processor, current_dataset,
                   locals, history, trace>>
HandleException ==
    /\ pc = "except"
    /\ Streams(<<"ERROR">>, ExceptionOutput(Dataset.hash, exc))
    /\ pc' = "finally"
    /\ UNCHANGED <<inputs, input_data, store, exit_code, processor, current_dataset,
                   dest_crs, idx, src_crs, transform, fidx, qgs_features,
                   save_opts, writer, write_result, success, exc, history, trace>>

\* run_export, lines 369-370, and the loop goes on.
Finally_keep ==
    /\ pc = "finally"
    /\ current_dataset' = current_dataset
    /\ pc' = "for"
    /\ src_crs' = InvalidCrs
    /\ transform' = NoTransform
    /\ fidx' = 0
    /\ qgs_features' = <<>>
    /\ save_opts' = NoSaveOpts
    /\ writer' = "none"
    /\ write_result' = ""
    /\ success' = FALSE
    /\ exc' = ""
    /\ UNCHANGED <<inputs, input_data, store, exit_code, processor, dest_crs, idx,
                   sys_stdout, flushed, sys_stderr, history, trace>>
Finally ==
    /\ pc = "finally"
    /\ current_dataset' = 0
    /\ pc' = "for"
    /\ src_crs' = InvalidCrs
    /\ transform' = NoTransform
    /\ fidx' = 0
    /\ qgs_features' = <<>>
    /\ save_opts' = NoSaveOpts
    /\ writer' = "none"
    /\ write_result' = ""
    /\ success' = FALSE
    /\ exc' = ""
    /\ UNCHANGED <<inputs, input_data, store, exit_code, processor, dest_crs, idx,
                   sys_stdout, flushed, sys_stderr, history, trace>>

\* The state of a process that has just been started.
ProcessStart ==
    /\ pc = "main"
    /\ input_data = ""
    /\ exit_code = -1
    /\ payload = NoPayload
    /\ fields = <<>>
    /\ crs_cache = EmptyMap
    /\ transform_cache = EmptyMap
    /\ default_crs = InvalidCrs
    /\ current_dataset = 0
    /\ dest_crs = InvalidCrs
    /\ idx = 0
    /\ src_crs = InvalidCrs
    /\ transform = NoTransform
    /\ fidx = 0
    /\ qgs_features = <<>>
    /\ save_opts = NoSaveOpts
    /\ writer = "none"
    /\ write_result = ""
    /\ success = FALSE
    /\ exc = ""
    /\ sys_stdout = <<>>
    /\ flushed = 0
    /\ sys_stderr = <<>>
    /\ resolved = EmptyMap
    /\ constructed = <<>>
    /\ writer_events = <<>>

\* The job is started again on the same input and the same output store,
\* after a run in which no writer failed (a new process: nothing but the
\* store is kept).
Rerun ==
    /\ pc = "exited"
    /\ runs < MaxRuns
    /\ ~io_fault
    /\ runs' = runs + 1
    /\ first_store' = IF runs = 1 THEN store ELSE first_store
    /\ pc' = "main"
    /\ input_data' = ""
    /\ exit_code' = -1
    /\ payload' = NoPayload
    /\ fields' = <<>>
    /\ crs_cache' = EmptyMap
    /\ transform_cache' = EmptyMap
    /\ default_crs' = InvalidCrs
    /\ current_dataset' = 0
    /\ dest_crs' = InvalidCrs
    /\ idx' = 0
    /\ src_crs' = InvalidCrs
    /\ transform' = NoTransform
    /\ fidx' = 0
    /\ qgs_features' = <<>>
    /\ save_opts' = NoSaveOpts
    /\ writer' = "none"
    /\ write_result' = ""
    /\ success' = FALSE
    /\ exc' = ""
    /\ sys_stdout' = <<>>
    /\ flushed' = 0
    /\ sys_stderr' = <<>>
    /\ resolved' = EmptyMap
    /\ constructed' = <<>>
    /\ writer_events' = <<>>
    /\ UNCHANGED <<inputs, store, io_fault>>

\* ----------------------------------------------------------------- inputs
SeqsUpTo(S, n) == UNION {[1..k -> S] : k \in 0..n}

Polygon == "POLYGON((0 0,1 0,1 1,0 1,0 0))"
FarPolygon == "POLYGON((9e9 9e9,9e9 0,0 0,9e9 9e9))"

\* A feature that builds, one whose property map is null (it fails to
\* build), one without geometry whose map has a "source_path" key of its
\* own, and one whose geometry cannot be reprojected.
FGood == [properties |-> Props([NoProps EXCEPT !["pid"] = "001", !["area"] = "120.5"]),
          wkt |-> Polygon]
FNull == [properties |-> NullProps, wkt |-> Polygon]
FBare == [properties |-> Props([NoProps EXCEPT !["pid"] = "002", !["source_path"] = "spoof"]),
          wkt |-> ""]
FFar == [properties |-> Props([NoProps EXCEPT !["pid"] = "003", !["code"] = None]),
         wkt |-> FarPolygon]

RawDataset(hash, layer_name, source_crs, source_path, features) ==
    [absent |-> {}, features |-> features, hash |-> hash,
     layer_name |-> layer_name, source_crs |-> source_crs,
     source_path |-> source_path, total_features |-> Len(features)]

Job(datasets, driver, overwrite, target_crs) ==
    [kind |-> "object", absent |-> {}, datasets |-> datasets,
     driver |-> driver, merge |-> FALSE, output_dir |-> "/out",
     overwrite |-> overwrite, target_crs |-> target_crs]

\* An input that is no JSON object: empty, no JSON at all, a JSON array.
NonDocument(kind) == [Job(<<>>, "", FALSE, "") EXCEPT !.kind = kind]

Drivers == {"gpkg", "ESRI Shapefile"}

\* An output store that holds an artifact before the run.
Preexisting(driver) ==
    IF IsContainer(driver)
    THEN With(EmptyMap, <<"/out">>, With(EmptyMap, "old", EmptyLayer(build_fields)))
    ELSE With(EmptyMap, <<"/out", "a">>, With(EmptyMap, "a", EmptyLayer(build_fields)))

\* Datasets of a batch: two plain ones, one whose features all fail to
\* build and whose source CRS is empty, one whose source_crs is a JSON list
\* (an exception in _build_crs), one whose layer_name is a number (an
\* exception in _prepare_save_options), one without features and with an
\* invalid source CRS.
BatchDatasets ==
    {RawDataset("h1", "a", "EPSG:4490", "/tmp/a.json", <<FGood>>),
     RawDataset("h2", "b", "EPSG:4526", "/tmp/b.json", <<FGood, FNull>>),
     RawDataset("h2", "b", "", "/tmp/b.json", <<FNull>>),
     RawDataset("h1", "a", ListValue, "/tmp/a.json", <<FGood>>),
     RawDataset("h2", IntValue, "EPSG:4490", "/tmp/b.json", <<FGood>>),
     RawDataset("h3", "a", "bogus", "/tmp/c.json", <<>>)}

\* Batches of those datasets, for both driver classes and overwrite flags.
BatchJobs ==
    {Job(dss, driver, overwrite, "EPSG:4490") :
        dss \in SeqsUpTo(BatchDatasets, MaxDatasets),
        driver \in Drivers, overwrite \in BOOLEAN}

\* One dataset with every sequence of sample features, alone or followed
\* by a plain dataset.
SampleFeatures == {FGood, FNull, FBare, FFar}

FeatureJobs ==
    {Job(<<RawDataset("h1", "a", crs, "/tmp/a.json", fs)>> \o rest,
         "gpkg", TRUE, "EPSG:4490") :
        fs \in SeqsUpTo(SampleFeatures, MaxFeatures),
        crs \in {"EPSG:4490", "EPSG:4526"},
        rest \in {<<>>, <<RawDataset("h2", "b", "EPSG:4490", "/tmp/b.json", <<FGood>>)>>}}

\* Job documents with one required key missing, at the top level or in the
\* first or the second dataset, and one whose target_crs is a JSON list.
PlainPair ==
    <<RawDataset("h1", "a", "EPSG:4490", "/tmp/a.json", <<FGood>>),
      RawDataset("h2", "b", "EPSG:4490", "/tmp/b.json", <<FGood>>)>>

IncompleteJobs ==
    {[Job(PlainPair, "gpkg", TRUE, "EPSG:4490") EXCEPT !.absent = {k}] :
        k \in TopFields}
    \cup
    {[Job(PlainPair, "gpkg", TRUE, "EPSG:4490")
        EXCEPT !.datasets[i].absent = {k}] :
        i \in 1..2, k \in DatasetFields}
    \cup
    {Job(PlainPair, "gpkg", TRUE, ListValue)}

NonDocuments == {NonDocument(k) : k \in {"empty", "notjson", "notobject"}}

\* One feature without geometry for every set of property keys; a key that
\* is present has the value SampleValue gives it.
SampleValue ==
    [bp_cnt |-> "4", area |-> "120.5", pid |-> "001", pname |-> "north field",
     gtype |-> "polygon", sheet |-> "J50", usage |-> "farmland",
     code |-> "0101", source_path |-> "spoof"]

PropertyMaps ==
    {[k \in PropKeys |-> IF k \in present THEN SampleValue[k] ELSE Absent] :
        present \in SUBSET PropKeys}

AttributeJobs ==
    {Job(<<RawDataset("h1", "a", "EPSG:4490", "/tmp/a.json",
                      <<[properties |-> Props(m), wkt |-> ""]>>)>>,
         "ESRI Shapefile", TRUE, "EPSG:4490") :
        m \in PropertyMaps}

\* Batches over the CRS identifiers: the empty one, an invalid one, two
\* spellings of one authority code, the code of the default CRS, and a
\* definition without authority code.  Dataset i has its own hash, layer
\* name and source path.
CrsIds ==
    {"", "bogus", "EPSG:4490", "epsg:4490", "EPSG:4526", "+proj=utm +zone=50"}

CrsDataset(i, source_crs) ==
    RawDataset(<<"h1", "h2", "h3", "h4">>[i], <<"a", "b", "c", "d">>[i],
               source_crs,
               <<"/tmp/a.json", "/tmp/b.json", "/tmp/c.json", "/tmp/d.json">>[i],
               <<FGood>>)

CrsJobs ==
    {Job([i \in 1..Len(ids) |-> CrsDataset(i, ids[i])], "ESRI Shapefile",
         TRUE, target_crs) :
        ids \in SeqsUpTo(CrsIds, MaxDatasets), target_crs \in CrsIds}

InitInputs ==
    \/ /\ argv = FALSE
       /\ stdin = Job(PlainPair, "gpkg", TRUE, "EPSG:4490")
       /\ line_buffered = TRUE
       /\ store = EmptyMap
    \/ /\ argv = TRUE
       /\ stdin \in NonDocuments \cup IncompleteJobs
       /\ line_buffered \in BOOLEAN
       /\ store = EmptyMap
    \/ /\ argv = TRUE
       /\ stdin \in BatchJobs
       /\ line_buffered \in BOOLEAN
       /\ store \in {EmptyMap, Preexisting(stdin.driver)}
    \/ /\ argv = TRUE
       /\ stdin \in FeatureJobs \cup AttributeJobs \cup CrsJobs
       /\ line_buffered = TRUE
       /\ store = EmptyMap

Init ==
    /\ InitInputs
    /\ ProcessStart
    /\ runs = 1
    /\ first_store = EmptyMap
    /\ io_fault = FALSE

Next ==
    \/ MainStart
    \/ MainRead
    \/ GeoProcessorInit
    \/ RunExportStart
    \/ ForNext
    \/ ResolveSourceCRS
    \/ BuildTransform
    \/ BuildFeature
    \/ WriteOpen
    \/ WriteAdd
    \/ EmitResult
    \/ HandleException
    \/ Finally
    \/ MainFinish

Spec == Init /\ [][Next]_vars

\* The process runs to its end: a sequential program takes its next step.
\* The batches, written through to a terminal into an empty store.
InitFair ==
    /\ \/ /\ argv = FALSE
          /\ stdin = Job(PlainPair, "gpkg", TRUE, "EPSG:4490")
       \/ /\ argv = TRUE
          /\ stdin \in NonDocuments \cup BatchJobs
    /\ line_buffered = TRUE
    /\ store = EmptyMap
    /\ ProcessStart
    /\ runs = 1
    /\ first_store = EmptyMap
    /\ io_fault = FALSE

FairSpec == InitFair /\ [][Next]_vars /\ WF_vars(Next)

\* The job is run, and after a run without writer failure run again, on an
\* output directory that is empty before the first run.
InitRerun ==
    /\ argv = TRUE
    /\ stdin \in BatchJobs \cup FeatureJobs
    /\ line_buffered = TRUE
    /\ store = EmptyMap
    /\ ProcessStart
    /\ runs = 1
    /\ first_store = EmptyMap
    /\ io_fault = FALSE

NextRerun == Next \/ Rerun

SpecRerun == InitRerun /\ [][NextRerun]_vars

\* ----------------------------------------------------------------- claims
IsResult(line) == line.kind = "result"
Results == SelectSeq(sys_stdout, IsResult)

DatasetPcs ==
    {"resolve_src", "build_transform", "build_features", "add", "emit",
     "except", "finally"}
InLoop == pc \in DatasetPcs \cup {"for"}
\* The datasets whose iteration has printed its record.
Completed == IF pc \in {"for", "finally"} THEN idx ELSE idx - 1
RunExportReturned ==
    pc = "exited" /\ input_data = "object" /\ exit_code = 0
LastLine == sys_stdout[Len(sys_stdout)]
IllTyped(ds) == ds.source_crs = ListValue \/ ds.layer_name = IntValue

\* C1: run_export emits exactly one result record per dataset, whatever
\* fails: while the loop runs, the records printed so far are those of the
\* datasets done so far, in order, each with the hash of its dataset; when
\* run_export has returned there are exactly N of them, all delivered.
C1_OneRecordPerDataset ==
    /\ InLoop =>
         /\ Len(sys_stdout) = Completed
         /\ Len(Results) = Completed
    /\ (InLoop \/ RunExportReturned) =>
         \A i \in 1..Len(Results) : Results[i].hash = Datasets[i].hash
    /\ RunExportReturned =>
         /\ Len(Results) = Len(Datasets)
         /\ flushed = Len(sys_stdout)

\* A batch of two has ended: the first dataset raised, the writer of the
\* second reported a failure, and there are two records.
C1_Witness ==
    /\ RunExportReturned
    /\ Len(Datasets) = 2
    /\ Len(Results) = 2
    /\ Results[1].error # Absent
    /\ Results[2].status = "failed"
    /\ Results[2].error = Absent

\* C2: once the loop of run_export is entered the process ends normally,
\* and whenever a dataset that is not the last one is in processing, the
\* next dataset gets into processing too, whatever the outcome of this one.
C2_BatchAlwaysCompletes ==
    /\ (pc = "for") ~> (pc = "exited" /\ exit_code = 0)
    /\ \A i \in 1..MaxDatasets :
         (pc = "resolve_src" /\ idx = i /\ i < Len(Datasets))
            ~> (pc = "resolve_src" /\ idx = i + 1)

\* The second dataset is in processing after the first one raised.
C2_Witness ==
    /\ pc = "resolve_src"
    /\ idx = 2
    /\ Len(sys_stdout) = 1
    /\ sys_stdout[1].status = "failed"
    /\ sys_stdout[1].error # Absent

\* C3: the record of a dataset says "failed" exactly when the writer
\* reported an error, the bulk add failed or an exception reached the
\* handler, and "processed" otherwise; only a "failed" record has an error.
C3_StatusReflectsOutcome ==
    /\ pc = "finally" =>
         /\ Len(sys_stdout) > 0
         /\ LastLine.kind = "result"
         /\ LastLine.status \in {"processed", "failed"}
         /\ LastLine.status = "failed" <=>
              (write_result \in {"writer_error", "add_failed"} \/ exc # "")
    /\ \A i \in 1..Len(sys_stdout) :
         sys_stdout[i].error # Absent => sys_stdout[i].status = "failed"

\* The bulk add of a dataset failed and its record says "failed", without
\* an error field.
C3_Witness ==
    /\ pc = "finally"
    /\ write_result = "add_failed"
    /\ Len(sys_stdout) > 0
    /\ LastLine.status = "failed"
    /\ LastLine.error = Absent

\* The features of fs that build, each built on its own, in order.
RECURSIVE Survivors(_)
Survivors(fs) ==
    IF fs = <<>> THEN <<>>
    ELSE LET f == create_feature(Head(fs), transform, FIELD_DEFINITIONS, idx,
                                 Datasets)
         IN (IF f.isNone THEN <<>> ELSE <<f>>) \o Survivors(Tail(fs))

WrittenLayer == store[save_opts.target_path][save_opts.layerName]

\* C4: the features handed to the writer are the input features that
\* build, in input order, each as it builds on its own; a failing feature
\* does not abort the dataset, and the layer has the full field list.
C4_SurvivingFeaturesWritten ==
    /\ pc = "build_features" =>
         qgs_features = Survivors(SubSeq(Dataset.features, 1, fidx))
    /\ pc = "add" =>
         /\ qgs_features = Survivors(Dataset.features)
         /\ \A i \in 1..Len(qgs_features) :
              /\ ~qgs_features[i].isNone
              /\ qgs_features[i].fields = FIELD_DEFINITIONS
         /\ WrittenLayer.fields = FIELD_DEFINITIONS
    /\ (pc = "emit" /\ write_result = "written") =>
         WrittenLayer.features = Survivors(Dataset.features)
    /\ pc = "except" => IllTyped(Dataset)

\* The first of two features failed to build and the second is handed to
\* the writer, with its own attributes.
C4_Witness ==
    /\ pc = "add"
    /\ Len(Dataset.features) = 2
    /\ create_feature(Dataset.features[1], transform, fields, idx, Datasets).isNone
    /\ Len(qgs_features) = 1
    /\ qgs_features[1].attributes[3] = "001"

AllFail ==
    \A k \in 1..Len(Dataset.features) :
        create_feature(Dataset.features[k], transform, fields, idx, Datasets).isNone

\* C5: a dataset none of whose features builds (or without features) gets
\* to the writer with an empty list, the bulk add is skipped, the layer is
\* created empty, and the record says "processed" unless the writer
\* reported an error.
C5_EmptyWriteIsProcessed ==
    /\ (pc = "add" /\ AllFail) => qgs_features = <<>>
    /\ (pc = "emit" /\ AllFail) =>
         /\ write_result \in {"writer_error", "written"}
         /\ write_result = "written" =>
              (success /\ WrittenLayer.features = <<>>)
    /\ (pc = "finally" /\ exc = "" /\ AllFail /\ write_result # "writer_error") =>
         /\ write_result = "written"
         /\ Len(sys_stdout) > 0
         /\ LastLine.status = "processed"
         /\ LastLine.error = Absent
    /\ (pc = "except" /\ AllFail) => IllTyped(Dataset)

\* A dataset with features, none of which built, is reported "processed".
C5_Witness ==
    /\ pc = "finally"
    /\ exc = ""
    /\ Len(Dataset.features) > 0
    /\ AllFail
    /\ Len(sys_stdout) > 0
    /\ LastLine.status = "processed"
    /\ WrittenLayer.features = <<>>

AllProcessed ==
    /\ Len(Results) = Len(Datasets)
    /\ \A i \in 1..Len(Results) : Results[i].status = "processed"
DistinctLayers ==
    \A i, j \in 1..Len(Datasets) :
        i # j => Datasets[i].layer_name # Datasets[j].layer_name
\* The run went through run_export's loop to its end.
NormalCompletion == pc = "exited" /\ dest_crs.valid
ArtifactPath(ds) ==
    TargetPath(payload.output_dir, ds.layer_name, IsContainer(payload.driver))
HasArtifact(ds) ==
    /\ ArtifactPath(ds) \in DOMAIN store
    /\ ds.layer_name \in DOMAIN store[ArtifactPath(ds)]

\* C6: after a batch whose datasets are all reported "processed" and have
\* pairwise distinct layer names, the output store holds the layer of every
\* dataset of the batch, for either driver class and either overwrite flag.
C6_EveryLayerKept ==
    (NormalCompletion /\ AllProcessed /\ DistinctLayers) =>
        \A i \in 1..Len(Datasets) : HasArtifact(Datasets[i])

\* C7: with overwrite set and an output directory that is empty before the
\* first run, a job whose datasets are well typed and whose writer does not
\* fail has every dataset reported "processed" in each run, and each later
\* run leaves the output store as the first run left it.
C7_RerunIdempotent ==
    (NormalCompletion /\ payload.overwrite /\ ~io_fault
       /\ \A i \in 1..Len(Datasets) : ~IllTyped(Datasets[i])) =>
        /\ AllProcessed
        /\ \A i \in 1..Len(Datasets) : HasArtifact(Datasets[i])
        /\ runs > 1 => store = first_store

\* The second run of a batch of two has ended, the store is as after the
\* first run and holds a layer with features.
C7_Witness ==
    /\ NormalCompletion
    /\ runs = 2
    /\ payload.overwrite
    /\ ~io_fault
    /\ Len(Datasets) = 2
    /\ AllProcessed
    /\ store = first_store
    /\ \E q \in DOMAIN store : \E l \in DOMAIN store[q] :
          store[q][l].features # <<>>

\* Nothing was parsed: no dataset was processed, no record was printed,
\* and the process ends with 1.
ParseFailedHard ==
    /\ pc \in {"main", "read", "exited"}
    /\ pc = "exited" => exit_code = 1
    /\ payload = NoPayload
    /\ idx = 0
    /\ current_dataset = 0
    /\ sys_stdout = <<>>

AnyAbsent(data) ==
    \/ data.absent # {}
    \/ \E i \in 1..Len(data.datasets) : data.datasets[i].absent # {}

\* C8, as claimed: a job document in which any required key is missing, at
\* the top level or in a dataset, fails hard.
C8_AnyMissingKeyFailsHard ==
    (argv /\ stdin.kind = "object" /\ AnyAbsent(stdin)) => ParseFailedHard

HardAbsent(data) ==
    \/ data.absent \cap {"driver", "merge", "output_dir", "overwrite",
                         "target_crs"} # {}
    \/ /\ "datasets" \notin data.absent
       /\ \E i \in 1..Len(data.datasets) :
            data.datasets[i].absent
              \cap {"hash", "layer_name", "source_crs", "source_path",
                    "total_features"} # {}

\* C8, amended: a job document fails hard when a required key other than
\* the top-level "datasets" and a dataset's "features" is missing; a missing
\* "datasets" is read as no datasets (exit code 0, no record) and a missing
\* "features" as a dataset without features, which is processed.
C8_MissingKeyFailsHard ==
    /\ (argv /\ stdin.kind = "object" /\ HardAbsent(stdin)) => ParseFailedHard
    /\ (argv /\ stdin.kind = "object" /\ ~HardAbsent(stdin)
          /\ pc \notin {"main", "read"}) =>
         /\ "datasets" \in stdin.absent => Datasets = <<>>
         /\ "datasets" \notin stdin.absent =>
              /\ Len(Datasets) = Len(stdin.datasets)
              /\ \A i \in 1..Len(Datasets) :
                   Datasets[i].features =
                     IF "features" \in stdin.datasets[i].absent THEN <<>>
                     ELSE stdin.datasets[i].features
         /\ (pc = "exited" /\ stdin.target_crs # ListValue) =>
              (exit_code = 0 /\ Len(Results) = Len(Datasets))

\* The process has ended with 1 on a document whose second dataset has no
\* "hash".
C8_Witness ==
    /\ pc = "exited"
    /\ exit_code = 1
    /\ stdin.kind = "object"
    /\ Len(stdin.datasets) = 2
    /\ "hash" \in stdin.datasets[2].absent
    /\ input_data = "object"
    /\ sys_stdout = <<>>

\* The parts of C9 that do not depend on what counts as malformed.
ExitCodesCommon ==
    /\ pc = "exited" => exit_code \in {0, 1}
    /\ NormalCompletion => exit_code = 0
    /\ ~argv =>
         /\ pc \in {"main", "exited"}
         /\ input_data = ""
         /\ pc = "exited" => exit_code = 1

\* C9, as claimed: exit code 0 on normal completion, with no dataset or
\* with failed datasets; exit code 1 and no record on an input that is no
\* structured document; exit code 1 before any input is read when the
\* prefix path is missing.
C9_ExitCodesAsClaimed ==
    /\ ExitCodesCommon
    /\ (pc = "exited" /\ argv /\ stdin.kind # "object") =>
         (exit_code = 1 /\ sys_stdout = <<>> /\ flushed = 0)

\* C9, amended: as claimed, for an input that is not empty; an empty input
\* ends the process with exit code 0 and no record.
C9_ExitCodes ==
    /\ ExitCodesCommon
    /\ (pc = "exited" /\ argv /\ stdin.kind \in {"notjson", "notobject"}) =>
         (exit_code = 1 /\ sys_stdout = <<>> /\ flushed = 0)
    /\ (pc = "exited" /\ argv /\ stdin.kind = "empty") =>
         (exit_code = 0 /\ sys_stdout = <<>> /\ flushed = 0)

\* The process has read an input that is no JSON and ended with 1.
C9_Witness ==
    /\ pc = "exited"
    /\ argv
    /\ stdin.kind = "notjson"
    /\ input_data = "notjson"
    /\ exit_code = 1

\* C10: the record of a dataset is on the output channel once its write
\* attempt is over and before the next dataset is touched, and nothing but
\* result records is written to the result stream.
C10_RecordsStreamed ==
    /\ pc \in DatasetPcs \ {"finally"} => flushed = idx - 1
    /\ pc \in {"for", "finally"} => flushed = idx
    /\ \A i \in 1..Len(sys_stdout) : IsResult(sys_stdout[i])

\* What the first present candidate key of a field gives, None when no
\* candidate key is present.
ValueOfFirstPresentKey(name, map) ==
    LET keys == FIELD_MAPPING[name]
        present == {k \in DOMAIN keys : map[keys[k]] # Absent}
    IN IF present = {} THEN None
       ELSE map[keys[CHOOSE k \in present : \A j \in present : k <= j]]

\* The features of the current dataset looked at so far have all been built,
\* so that qgs_features[j] is the feature built from Dataset.features[j].
NoneSkipped == pc = "build_features" /\ Len(qgs_features) = fidx
\* The features looked at so far have a property map and no geometry text.
PlainSoFar ==
    \A j \in 1..fidx :
        /\ Dataset.features[j].properties.isDict
        /\ Dataset.features[j].wkt = ""

WJLJ == CHOOSE i \in 1..Len(FIELD_DEFINITIONS) : FIELD_DEFINITIONS[i] = "WJLJ"

BadId(def_crs) ==
    /\ def_crs \notin {ListValue, IntValue}
    /\ (def_crs = "" \/ ~QgsCoordinateReferenceSystem(def_crs).valid)

\* The steps of a dataset after its source CRS is resolved.
AfterResolve == {"build_transform", "build_features", "add", "emit"}

\* C13: an empty or invalid target_crs resolves to the default CRS and the
\* run ends with 0; an empty or invalid source_crs resolves to the default
\* CRS without an exception, the transform of the dataset is the one from
\* the default CRS to the destination, and the record of such a dataset says
\* "failed" only when the writer failed or the layer name is ill-typed.
C13_BadCrsFallsBack ==
    /\ (InLoop /\ BadId(payload.target_crs)) =>
         (dest_crs = default_crs /\ default_crs.valid)
    /\ (pc = "exited" /\ payload # NoPayload /\ BadId(payload.target_crs)) =>
         exit_code = 0
    /\ (pc \in AfterResolve /\ BadId(Dataset.source_crs)) =>
         (src_crs = default_crs /\ default_crs.valid)
    /\ (pc \in {"build_features", "add", "emit"} /\ BadId(Dataset.source_crs)) =>
         /\ transform.isNone <=> CrsEqual(default_crs, dest_crs)
         /\ ~transform.isNone =>
              (transform.src = default_crs /\ transform.dst = dest_crs)
    /\ (pc = "except" /\ BadId(Dataset.source_crs)) =>
         Dataset.layer_name = IntValue
    /\ (pc = "finally" /\ BadId(Dataset.source_crs)
          /\ Dataset.layer_name # IntValue) =>
         /\ write_result # ""
         /\ LastLine.status = "failed" =>
              write_result \in {"writer_error", "add_failed"}

\* A dataset with an empty source_crs in a job with an invalid target_crs
\* has been written, untransformed, and reported "processed".
C13_Witness ==
    /\ pc = "finally"
    /\ Dataset.source_crs = ""
    /\ payload.target_crs = "bogus"
    /\ src_crs = default_crs
    /\ dest_crs = default_crs
    /\ write_result = "written"
    /\ LastLine.status = "processed"
    /\ Len(WrittenLayer.features) = 1
    /\ WrittenLayer.features[1].geometry.via = <<>>

\* The processor has been constructed.
ProcessorBuilt == default_crs.valid

\* C14: every call of _build_crs returns the handle that the first call of
\* this run with the same identifier returned: the destination CRS and the
\* source CRS of the current dataset are the first resolutions of their
\* identifiers, an empty or invalid identifier resolved to the default CRS
\* the first time, and a valid one to the handle the cache holds.
C14_SameIdSameHandle ==
    /\ ProcessorBuilt =>
         /\ DEFAULT_CRS_ID \in DOMAIN resolved
         /\ resolved[DEFAULT_CRS_ID] = default_crs
    /\ InLoop =>
         /\ payload.target_crs \in DOMAIN resolved
         /\ dest_crs = resolved[payload.target_crs]
    /\ pc \in AfterResolve =>
         /\ Dataset.source_crs \in DOMAIN resolved
         /\ src_crs = resolved[Dataset.source_crs]
    /\ \A id \in DOMAIN resolved :
         /\ BadId(id) => resolved[id] = default_crs
         /\ ~BadId(id) =>
              (id \in DOMAIN crs_cache /\ resolved[id] = crs_cache[id])

\* The third and fourth call of a run: the invalid identifier of the target
\* has been resolved again for the first dataset, and the identifier that
\* the constructor resolved has been resolved for the second dataset.
C14_Witness ==
    /\ pc = "build_transform"
    /\ idx = 2
    /\ payload.target_crs = "bogus"
    /\ Datasets[1].source_crs = "bogus"
    /\ Datasets[2].source_crs = DEFAULT_CRS_ID
    /\ src_crs = resolved[DEFAULT_CRS_ID]
    /\ dest_crs = resolved["bogus"]

\* Every entry of the CRS cache has a non-empty identifier string as key and
\* the valid handle constructed from that identifier as value.
CrsCacheSound ==
    \A id \in DOMAIN crs_cache :
        /\ id \notin {"", ListValue, IntValue}
        /\ crs_cache[id].valid
        /\ crs_cache[id] = QgsCoordinateReferenceSystem(id)

\* A call of _build_crs with an empty or invalid identifier, for the target
\* or for the source of a dataset, leaves the cache as it is.
BadResolveKeepsCache ==
    (\/ pc = "run_export" /\ BadId(payload.target_crs)
     \/ pc = "resolve_src" /\ BadId(Dataset.source_crs))
        => crs_cache' = crs_cache

\* C15: in every state every entry of the CRS cache maps a non-empty
\* identifier to the valid handle constructed from it, so that no empty and
\* no invalid identifier is a key, and a resolve call with an empty or
\* invalid identifier leaves the cache unchanged.
C15_CrsCacheHoldsValidOnly ==
    []CrsCacheSound /\ [][BadResolveKeepsCache]_vars

\* An invalid identifier has been resolved for the second dataset while the
\* cache holds the default identifier and both spellings of EPSG:4490.
C15_Witness ==
    /\ pc = "build_transform"
    /\ idx = 2
    /\ Dataset.source_crs = "bogus"
    /\ src_crs = default_crs
    /\ DOMAIN crs_cache = {DEFAULT_CRS_ID, "EPSG:4490", "epsg:4490"}

\* No key was constructed twice, and the constructed transforms are the
\* entries of the cache.
ConstructedOnce ==
    /\ \A i, j \in 1..Len(constructed) :
         constructed[i] = constructed[j] => i = j
    /\ {constructed[i] : i \in 1..Len(constructed)} = DOMAIN transform_cache

\* A step keeps every entry of the transform cache, key and value.
TransformsKept ==
    \A key \in DOMAIN transform_cache :
        /\ key \in DOMAIN transform_cache'
        /\ transform_cache'[key] = transform_cache[key]

\* C16: within a run a QgsCoordinateTransform is constructed at most once
\* for each (source identity, destination identity) pair, and no step, the
\* transformation of a geometry included, replaces, removes or changes an
\* entry of the transform cache.
C16_TransformBuiltOnce ==
    []ConstructedOnce /\ [][TransformsKept]_vars

\* The second dataset names the CRS of the first in another spelling: one
\* transform has been constructed, and the geometry of a feature of the
\* second dataset went through it.
C16_Witness ==
    /\ pc = "build_features"
    /\ idx = 2
    /\ Datasets[1].source_crs = "EPSG:4490"
    /\ Datasets[2].source_crs = "epsg:4490"
    /\ constructed = << <<"EPSG:4490", "EPSG:4526">> >>
    /\ ~transform.isNone
    /\ Len(qgs_features) = 1
    /\ qgs_features[1].geometry.via = <<"EPSG:4490", "EPSG:4526">>

\* Every transform in the cache was constructed for a pair of different
\* CRS with the identities of its key.
TransformCacheMatches ==
    \A key \in DOMAIN transform_cache :
        /\ ~transform_cache[key].isNone
        /\ ~CrsEqual(transform_cache[key].src, transform_cache[key].dst)
        /\ (IF transform_cache[key].src.authid # ""
            THEN transform_cache[key].src.authid
            ELSE transform_cache[key].src.wkt) = key[1]
        /\ (IF transform_cache[key].dst.authid # ""
            THEN transform_cache[key].dst.authid
            ELSE transform_cache[key].dst.wkt) = key[2]

\* C17: whatever calls went before, _build_transform gives None when the
\* source and the destination CRS of the dataset are the same CRS, and
\* otherwise a transform constructed for the same source CRS and the same
\* destination CRS; the cache holds no transform for a pair of equal CRS
\* and no transform under the key of another pair.
C17_TransformMatchesPair ==
    /\ TransformCacheMatches
    /\ pc \in {"build_features", "add", "emit"} =>
         /\ CrsEqual(src_crs, dest_crs) => transform.isNone
         /\ ~CrsEqual(src_crs, dest_crs) =>
              /\ ~transform.isNone
              /\ CrsEqual(transform.src, src_crs)
              /\ CrsEqual(transform.dst, dest_crs)

\* After a transform was cached for the first dataset, the second dataset,
\* whose source CRS is the target CRS in another spelling, got None.
C17_Witness ==
    /\ pc = "build_features"
    /\ idx = 2
    /\ payload.target_crs = "EPSG:4490"
    /\ Datasets[1].source_crs = "+proj=utm +zone=50"
    /\ Datasets[2].source_crs = "epsg:4490"
    /\ DOMAIN transform_cache = {<<"WKT[unknown UTM 50]", "EPSG:4490">>}
    /\ transform.isNone

\* How often the writer of dataset i was acquired, and released.
Acquired(i) ==
    Cardinality({k \in 1..Len(writer_events) : writer_events[k] = <<"acquire", i>>})
Released(i) ==
    Cardinality({k \in 1..Len(writer_events) : writer_events[k] = <<"release", i>>})

\* C18: the writer events of a run are acquire i, release i, acquire j,
\* release j, ... with i < j: a writer is released before the next one is
\* acquired; a writer is held only between its creation and the bulk add;
\* when _write_features has returned, on any of its paths, the writer of
\* the dataset was acquired once and released once; and no writer is held
\* when a dataset begins or the run ends.
C18_WriterReleasedOnce ==
    /\ \A k \in 1..Len(writer_events) :
         IF k % 2 = 1
         THEN /\ writer_events[k][1] = "acquire"
              /\ writer_events[k][2] \in 1..idx
              /\ k > 2 => writer_events[k - 2][2] < writer_events[k][2]
         ELSE writer_events[k] = <<"release", writer_events[k - 1][2]>>
    /\ Len(writer_events) % 2 = 1 <=> pc = "add"
    /\ pc = "add" <=> writer = "open"
    /\ pc = "add" => writer_events[Len(writer_events)] = <<"acquire", idx>>
    /\ (pc \in {"emit", "finally"} /\ write_result # "") =>
         /\ write_result \in {"writer_error", "add_failed", "written"}
         /\ Acquired(idx) = 1
         /\ Released(idx) = 1
    /\ \A i \in 1..Len(Datasets) :
         Released(i) <= Acquired(i) /\ Acquired(i) <= 1
    /\ pc \in {"for", "resolve_src", "exited"} =>
         \A i \in 1..idx : Released(i) = Acquired(i)

\* The writer of the second dataset reported an error after the writer of
\* the first was used: both were acquired and released, one after the other.
C18_Witness ==
    /\ pc = "emit"
    /\ idx = 2
    /\ write_result = "writer_error"
    /\ writer_events = << <<"acquire", 1>>, <<"release", 1>>,
                          <<"acquire", 2>>, <<"release", 2>> >>

\* C19: while a dataset is in processing, from the resolution of its source
\* CRS to the end of its handler, current_dataset is that dataset; before
\* the first dataset, between datasets (also after one that raised) and
\* after the run it is None; so no feature of a dataset is built without a
\* current dataset, and attribute extraction raises for a feature only
\* when the feature has no property map.
C19_CurrentDatasetScoped ==
    /\ pc \in DatasetPcs =>
         /\ idx \in 1..Len(Datasets)
         /\ current_dataset = idx
    /\ pc \notin DatasetPcs => current_dataset = 0
    /\ pc = "build_features" =>
         \A j \in 1..Len(Dataset.features) :
            extract_attributes(Dataset.features[j].properties,
                               current_dataset, Datasets).raised
              => ~Dataset.features[j].properties.isDict
    /\ exc \in {"", "TypeError: unhashable type", "TypeError: layer name"}

\* The first dataset of a batch of two ended in the handler, and the loop
\* is back at its head with no current dataset.
C19_Witness ==
    /\ pc = "for"
    /\ idx = 1
    /\ Len(Datasets) = 2
    /\ Len(sys_stdout) = 1
    /\ LastLine.error # Absent
    /\ current_dataset = 0

\* The datasets whose source CRS has been resolved: those before the
\* current one and, past its resolution, the current one, without those
\* whose resolution raised.
SourcesResolved ==
    {i \in 1..(IF pc = "resolve_src" THEN idx - 1 ELSE idx) :
        Datasets[i].source_crs \in DOMAIN resolved}
SourceIdentities ==
    {IF resolved[Datasets[i].source_crs].authid # ""
     THEN resolved[Datasets[i].source_crs].authid
     ELSE resolved[Datasets[i].source_crs].wkt : i \in SourcesResolved}

\* Every key of the transform cache pairs a source identity with the
\* identity of the destination CRS of the run, the two being different
\* CRS, and there are no more keys than source identities resolved so far.
TransformCacheShape ==
    /\ \A key \in DOMAIN transform_cache :
         /\ key[2] = (IF dest_crs.authid # "" THEN dest_crs.authid
                      ELSE dest_crs.wkt)
         /\ key[1] # key[2]
         /\ key[1] \in SourceIdentities
         /\ ~CrsEqual(transform_cache[key].src, dest_crs)
         /\ transform_cache[key].dst = dest_crs
    /\ Cardinality(DOMAIN transform_cache) <= Cardinality(SourceIdentities)

\* The destination CRS stays as resolved before the first dataset, the
\* transform cache keeps its keys, and the feature loop, the writer, the
\* record and the handler leave both caches as they are.
CachesSteady ==
    /\ InLoop => dest_crs' = dest_crs
    /\ DOMAIN transform_cache \subseteq DOMAIN transform_cache'
    /\ pc \in {"build_features", "add", "emit", "except", "finally"} =>
         (crs_cache' = crs_cache /\ transform_cache' = transform_cache)

\* C20: in every state the keys of the transform cache have the identity
\* of the one destination CRS of the run as second component and the
\* identity of a different, resolved source CRS as first component, the
\* cache is no larger than the set of source identities resolved so far, it
\* only grows, and building features and writing change neither cache.
C20_TransformCacheShape ==
    []TransformCacheShape /\ [][CachesSteady]_vars

\* Two datasets with different source CRS, both different from the default
\* CRS that stands in for the empty target, have been processed: the cache
\* holds two transforms to the default CRS.
C20_Witness ==
    /\ pc = "finally"
    /\ idx = 2
    /\ payload.target_crs = ""
    /\ write_result = "written"
    /\ DOMAIN transform_cache =
         {<<"EPSG:4490", "EPSG:4526">>, <<"WKT[unknown UTM 50]", "EPSG:4526">>}

====
